---- MODULE Spec2Model ----
(***************************************************************************)
(* vcf-info2format: src/src/main.rs.                                       *)
(*                                                                         *)
(* main() checks its arguments, reads the header of a single-sample VCF,   *)
(* builds a new header in which the requested INFO declarations have       *)
(* become FORMAT declarations, and then streams the records: every         *)
(* requested INFO value is taken out of the record and pushed back as a    *)
(* FORMAT value of the one sample.                                         *)
(*                                                                         *)
(* The model keeps the identifiers of main.rs.  A header is the set of its *)
(* INFO/FORMAT declarations, a declaration being its namespace, ID and     *)
(* Type (Number and Description are copied verbatim by line 94 and carry   *)
(* no behaviour).  A record is its INFO values, the FORMAT values of its   *)
(* sample and its QUAL column.                                             *)
(***************************************************************************)
EXTENDS Integers, Sequences, FiniteSets, TLC

\* ------------------------------------------------------------- bounds
\* Longest list of -f options.
MaxFields == 2
\* Most records of an input of the record-rich inputs (SpecStream).
MaxRecords == 2
\* Most records of an input of the header-rich inputs (Spec).
PlanRecords == 1

\* ------------------------------------------------------------- universe
\* Tag ids.  "QUAL" is the id line 124/217 reserves for the quality score;
\* nothing stops an INFO field from carrying the same id.
Ids == {"DP", "QUAL"}
\* The ids in byte order, the order in which a BTreeMap<String, _> iterates.
IdOrder == <<"DP", "QUAL">>

\* The types main() knows (lines 101-104) and one more the VCF format
\* allows for INFO fields.
KnownTypes == {"Flag", "Integer", "Float", "String"}
InfoTypes == KnownTypes \cup {"Character"}
NoType == "-"

\* A stored value: its BCF type and its elements.  A set Flag has no element.
Absent == [t |-> "Absent", v |-> << >>]
FlagSet == [t |-> "Flag", v |-> << >>]
Payloads == {<<7, 3>>}
QualScores == {30}

Range(s) == {s[i] : i \in DOMAIN s}

\* BCF storage type of the values of a field declared with type ty.
StoredAs(ty) == IF ty = "Character" THEN "String" ELSE ty

\* The values a record may hold for a field declared with type ty.
ValuesOf(ty) ==
  IF ty = NoType THEN {Absent}
  ELSE IF ty = "Flag" THEN {Absent, FlagSet}
  ELSE {Absent} \cup {[t |-> StoredAs(ty), v |-> p] : p \in Payloads}

\* Type of the declaration (ns, id) of header records recs, NoType if none.
DeclType(recs, ns, id) ==
  IF \E d \in recs : d.ns = ns /\ d.id = id
  THEN (CHOOSE d \in recs : d.ns = ns /\ d.id = id).type
  ELSE NoType

\* ------------------------------------------------------------- inputs
FieldLists == UNION {[1..n -> Ids] : n \in 0..MaxFields}

\* Headers as the parser hands them over: at most one declaration per
\* namespace and id.  infoTypes and formatTypes are what an id may be declared
\* as in each namespace (NoType: not declared).
HeaderRecs(infoTypes, formatTypes) ==
  {{[ns |-> "INFO", id |-> i, type |-> it[i]] : i \in {j \in Ids : it[j] # NoType}}
     \cup {[ns |-> "FORMAT", id |-> i, type |-> ft[i]] : i \in {j \in Ids : ft[j] # NoType}} :
   it \in [Ids -> infoTypes], ft \in [Ids -> formatTypes]}

\* A line that does not parse is a record with ok = FALSE.
BadLine == [ok |-> FALSE, info |-> [i \in Ids |-> Absent],
            fmt |-> [i \in Ids |-> Absent], qual |-> 0]

AnyValue == UNION {ValuesOf(ty) : ty \in InfoTypes \cup {NoType}}

\* The records a file with header declarations recs may hold: every value is
\* of the type its declaration gives it, and a FORMAT value is no Flag.
GoodRecords(recs) ==
  {[ok |-> TRUE, info |-> f, fmt |-> g, qual |-> q] :
     f \in {f \in [Ids -> AnyValue] :
              \A i \in Ids : f[i] \in ValuesOf(DeclType(recs, "INFO", i))},
     g \in {g \in [Ids -> AnyValue] :
              \A i \in Ids : g[i] \in ValuesOf(DeclType(recs, "FORMAT", i)) \ {FlagSet}},
     q \in QualScores}

\* Those among them that hold a value for every declared field.
FullRecords(recs) ==
  {r \in GoodRecords(recs) :
     \A i \in Ids : /\ DeclType(recs, "INFO", i) # NoType => r.info[i] # Absent
                    /\ DeclType(recs, "FORMAT", i) # NoType => r.fmt[i] # Absent}

FilesOver(records, n) == UNION {[1..k -> records] : k \in 0..n}

\* Header-rich inputs: any header, short files.
PlanArgs == [fields : FieldLists, qual : BOOLEAN, verbose_report : {0, 1}]
PlanHeaders ==
  [samples : {1, 2},
   recs : HeaderRecs(InfoTypes \cup {NoType}, {"Integer", NoType})]
PlanFiles(recs) == FilesOver(FullRecords(recs) \cup {BadLine}, PlanRecords)

\* Record-rich inputs: single-sample headers that declare every id as an INFO
\* field of a known type, any record.
StreamArgs == [fields : FieldLists, qual : BOOLEAN, verbose_report : {0, 1, 2}]
StreamHeaders ==
  [samples : {1},
   recs : {h \in HeaderRecs(KnownTypes, {"Integer", NoType}) :
             DeclType(h, "FORMAT", "QUAL") = NoType}]
StreamFiles(recs) == FilesOver(GoodRecords(recs) \cup {BadLine}, MaxRecords)

\* ------------------------------------------------------------- state
VARIABLES
  args,         \* Args (lines 11-35)
  header,       \* the input header: sample count and declarations
  input,        \* the records of the input, in order
  pc,           \* where main() is
  fields,       \* BTreeSet of the requested ids not found yet (line 63)
  new_header,   \* declarations of the output header (line 84)
  field_types,  \* id -> TagType, NoType for an id that is no key (line 86)
  pos,          \* records pulled from input.records() so far
  n_records,    \* line 139
  written,      \* records handed to output.write, in order
  log,          \* messages emitted: error!, info!, the progress trace!, panics
  run           \* 1 for the run on the input, 2 for a run on its output

vars == <<args, header, input, pc, fields, new_header, field_types, pos,
          n_records, written, log, run>>

\* A message: what it reports and the values formatted into its text.
Msg(kind, msgargs) == [kind |-> kind, args |-> msgargs]

NoPlan == [i \in Ids |-> NoType]

\* The state main() starts in.
Started ==
  /\ pc = "Start"
  /\ fields = {}
  /\ new_header = {}
  /\ field_types = NoPlan
  /\ pos = 0
  /\ n_records = 0
  /\ written = << >>
  /\ log = << >>
  /\ run = 1

Init ==
  /\ args \in PlanArgs
  /\ header \in PlanHeaders
  /\ input \in PlanFiles(header.recs)
  /\ Started

InitStream ==
  /\ args \in StreamArgs
  /\ header \in StreamHeaders
  /\ input \in StreamFiles(header.recs)
  /\ Started

\* ------------------------------------------------------------- Start
\* Lines 58-65: neither -f nor -q is a usage error; the requested ids are
\* collected into a set.
CheckArgs ==
  /\ pc = "Start"
  /\ IF Len(args.fields) = 0 /\ ~args.qual
     THEN /\ log' = Append(log, Msg("no_field", << >>))
          /\ pc' = "Failed"
          /\ UNCHANGED fields
     ELSE /\ fields' = Range(args.fields)
          /\ pc' = "ValidatingHeader"
          /\ UNCHANGED log
  /\ UNCHANGED <<args, header, input, new_header, field_types, pos, n_records,
                 written, run>>

\* ------------------------------------------------------------- ValidatingHeader
\* Lines 77-81.
ValidateHeader ==
  /\ pc = "ValidatingHeader"
  /\ IF header.samples # 1
     THEN /\ log' = Append(log, Msg("not_single_sample", << >>))
          /\ pc' = "Failed"
     ELSE /\ pc' = "BuildingPlan"
          /\ UNCHANGED log
  /\ UNCHANGED <<args, header, input, fields, new_header, field_types, pos,
                 n_records, written, run>>

\* ------------------------------------------------------------- BuildingPlan
\* remove_info with the removal left out.
remove_info_kept(recs, id) == recs

\* Header::remove_info (line 92): every INFO declaration of the id goes.
remove_info(recs, id) == {d \in recs : ~(d.ns = "INFO" /\ d.id = id)}

\* Header::push_record (lines 98, 126) of a FORMAT line: the header keeps one
\* declaration per namespace and id, and a line whose id is already declared
\* there is dropped.
push_record(recs, id, type) ==
  IF \E d \in recs : d.ns = "FORMAT" /\ d.id = id
  THEN recs
  ELSE recs \cup {[ns |-> "FORMAT", id |-> id, type |-> type]}

\* Lines 88-113: the body of the loop over header.header_records().  st holds
\* fields, new_header, field_types and, once line 105 is reached, the type
\* that stopped the scan.
ScanRecord(st, rec) ==
  IF rec.ns = "INFO" /\ rec.id \in st.fields
  THEN LET pushed == push_record(remove_info(st.new_header, rec.id), rec.id, rec.type)
           moved == [st EXCEPT !.fields = @ \ {rec.id}, !.new_header = pushed]
       IN IF rec.type \in KnownTypes
          THEN [moved EXCEPT !.field_types[rec.id] = rec.type]
          ELSE [moved EXCEPT !.unknown = rec.type]
  ELSE st

\* Lines 87-114: the loop, over the declarations in the order ord of the file;
\* line 107 leaves it.
RECURSIVE Scan(_, _, _)
Scan(ord, i, st) ==
  IF i > Len(ord) \/ st.unknown # NoType
  THEN st
  ELSE Scan(ord, i + 1, ScanRecord(st, ord[i]))

\* The orders in which a file may list the declarations S.
RECURSIVE Orders(_)
Orders(S) ==
  IF S = {} THEN {<< >>}
  ELSE UNION {{<<x>> \o o : o \in Orders(S \ {x})} : x \in S}

\* FirstMissing finding every requested id.
FirstMissing_none(fs, i, ft) == << >>

\* Lines 116-121: the first requested id that is no key of field_types, as a
\* one-element sequence; empty when there is none.
RECURSIVE FirstMissing(_, _, _)
FirstMissing(fs, i, ft) ==
  IF i > Len(fs) THEN << >>
  ELSE IF ft[fs[i]] = NoType THEN <<fs[i]>>
  ELSE FirstMissing(fs, i + 1, ft)

\* Lines 84-136.
BuildPlan ==
  /\ pc = "BuildingPlan"
  /\ \E ord \in Orders(header.recs) :
       LET st == Scan(ord, 1, [fields |-> fields, new_header |-> header.recs,
                               field_types |-> NoPlan, unknown |-> NoType])
           missing == FirstMissing(args.fields, 1, st.field_types)
       IN /\ fields' = st.fields
          /\ field_types' = st.field_types
          /\ IF st.unknown # NoType
             THEN /\ log' = Append(log, Msg("unknown_type", <<st.unknown>>))
                  /\ new_header' = st.new_header
                  /\ pc' = "Failed"
             ELSE IF missing # << >>
             THEN /\ log' = Append(log, Msg("missing_info", missing))
                  /\ new_header' = st.new_header
                  /\ pc' = "Failed"
             ELSE /\ new_header' = IF args.qual
                                   THEN push_record(st.new_header, "QUAL", "Float")
                                   ELSE st.new_header
                  /\ pc' = "StreamingRecords"
                  /\ UNCHANGED log
  /\ UNCHANGED <<args, header, input, pos, n_records, written, run>>

\* ------------------------------------------------------------- StreamingRecords
\* TagValue (lines 37-42); NoData marks an id that is no key of data.  Flag(i)
\* carries its one integer as <<i>>.
NoData == [kind |-> "None", v |-> << >>]
TagValue(kind, v) == [kind |-> kind, v |-> v]

\* Lines 159-191: the body of the loop over field_types, for one tag of type
\* ttype.  st holds the record and data.
ExtractTag(st, tag, ttype) ==
  LET cur == st.rec.info[tag]
      cleared == [st.rec EXCEPT !.info[tag] = Absent]
  IN IF ttype = "Flag"
     THEN IF cur # Absent
          THEN [rec |-> cleared, data |-> [st.data EXCEPT ![tag] = TagValue("Flag", <<1>>)]]
          ELSE [st EXCEPT !.data[tag] = TagValue("Flag", <<0>>)]
     ELSE IF cur # Absent
          THEN [rec |-> cleared, data |-> [st.data EXCEPT ![tag] = TagValue(ttype, cur.v)]]
          ELSE st

\* Lines 157-192: the loop, over the keys of field_types in their order.
RECURSIVE Extract(_, _, _)
Extract(ft, i, st) ==
  IF i > Len(IdOrder) THEN st
  ELSE Extract(ft, i + 1,
               IF ft[IdOrder[i]] = NoType THEN st
               ELSE ExtractTag(st, IdOrder[i], ft[IdOrder[i]]))

\* Lines 199-213: one entry of data pushed as a FORMAT value of the sample; a
\* value already stored under the tag is replaced.
PushTag(rec, tag, d) ==
  [rec EXCEPT !.fmt[tag] =
     [t |-> IF d.kind = "Flag" THEN "Integer" ELSE d.kind, v |-> d.v]]

\* Lines 198-214: the loop over data.
RECURSIVE Reinsert(_, _, _)
Reinsert(data, i, rec) ==
  IF i > Len(IdOrder) THEN rec
  ELSE Reinsert(data, i + 1,
                IF data[IdOrder[i]] = NoData THEN rec
                ELSE PushTag(rec, IdOrder[i], data[IdOrder[i]]))

\* Lines 215-218.
PushQual(rec, qual) ==
  IF qual THEN [rec EXCEPT !.fmt["QUAL"] = [t |-> "Float", v |-> <<rec.qual>>]]
  ELSE rec

\* Lines 157-218: the record as written for the record rec as read.
\* output.translate (line 195) re-targets the record and changes no value.
Transform(ft, qual, rec) ==
  LET ex == Extract(ft, 1, [rec |-> rec, data |-> [i \in Ids |-> NoData]])
  IN PushQual(Reinsert(ex.data, 1, ex.rec), qual)

\* Line 152: the remainder has no value for a divisor of 0 and the process
\* panics.
RemainderPanics(interval) == interval = 0

\* Calls of the library that main() unwraps or expects: a failing call of the
\* record's extraction (162-188), insertion (202-217) or write (222).
Faults == {"none", "extract", "insert", "write"}

\* What one turn of the loop at lines 140-223 does with record r when the
\* interval is interval and the library fails as fault: the outcome, the
\* counter, the record written if any and the messages.
Turn(interval, ft, qual, n, r, fault) ==
  LET n1 == n + 1   \* u32; no input of the model is 2^32 records long
      ex == Extract(ft, 1, [rec |-> r, data |-> [i \in Ids |-> NoData]])
      progress == IF ~RemainderPanics(interval) /\ n1 % interval = 0
                  THEN <<Msg("progress", <<ToString(n1)>>)>> ELSE << >>
      stop(k, m) == [outcome |-> k, n |-> n1, out |-> << >>, msgs |-> progress \o <<m>>]
  IN IF ~r.ok
     THEN [outcome |-> "Failed", n |-> n, out |-> << >>,
           msgs |-> <<Msg("malformed", <<"invalid record">>)>>]
     ELSE IF RemainderPanics(interval)
     THEN stop("Failed", Msg("panic", <<"remainder with a divisor of zero">>))
     ELSE IF fault = "extract" /\ ft # NoPlan
     THEN stop("Failed", Msg("panic", <<"extract">>))
     ELSE IF fault = "insert" /\ (ex.data # [i \in Ids |-> NoData] \/ qual)
     THEN stop("Failed", Msg("panic", <<"insert">>))
     ELSE IF fault = "write"
     THEN stop("Failed", Msg("panic", <<"write">>))
     ELSE [outcome |-> "StreamingRecords", n |-> n1,
           out |-> <<Transform(ft, qual, r)>>, msgs |-> progress]

\* Lines 140-223, one record.
ProcessRecord ==
  /\ pc = "StreamingRecords"
  /\ pos < Len(input)
  /\ \E fault \in Faults :
       LET t == Turn(args.verbose_report, field_types, args.qual, n_records,
                     input[pos + 1], fault)
       IN /\ pc' = t.outcome
          /\ n_records' = t.n
          /\ written' = written \o t.out
          /\ log' = log \o t.msgs
  /\ pos' = pos + 1
  /\ UNCHANGED <<args, header, input, fields, new_header, field_types, run>>

\* ------------------------------------------------------------- Done
\* Line 224, after the last record.
Finish ==
  /\ pc = "StreamingRecords"
  /\ pos = Len(input)
  /\ log' = Append(log, Msg("finished", <<ToString(n_records)>>))
  /\ pc' = "Done"
  /\ UNCHANGED <<args, header, input, fields, new_header, field_types, pos,
                 n_records, written, run>>

\* main() once more, with the same arguments, on the file the first run wrote.
Rerun ==
  /\ pc = "Done"
  /\ run = 1
  /\ run' = 2
  /\ header' = [samples |-> header.samples, recs |-> new_header]
  /\ input' = written
  /\ pc' = "Start"
  /\ fields' = {}
  /\ new_header' = {}
  /\ field_types' = NoPlan
  /\ pos' = 0
  /\ n_records' = 0
  /\ written' = << >>
  /\ log' = << >>
  /\ UNCHANGED args

Next ==
  \/ CheckArgs
  \/ ValidateHeader
  \/ BuildPlan
  \/ ProcessRecord
  \/ Finish
  \/ Rerun

Spec == Init /\ [][Next]_vars

SpecStream == InitStream /\ [][Next]_vars

\* ------------------------------------------------------------- claims
Last(s) == s[Len(s)]
Storable == {"Integer", "Float", "String"}
InfoDecls(recs, id) == {d \in recs : d.ns = "INFO" /\ d.id = id}
FormatDecls(recs, id) == {d \in recs : d.ns = "FORMAT" /\ d.id = id}

\* C1: once the header scan has built the output schema of a single-sample
\* input, every requested id that the input declares as an INFO field of a
\* known type T has no INFO declaration in the output schema and exactly one
\* FORMAT declaration there, of type T.
C1_SchemaRelocation ==
  pc = "StreamingRecords" =>
    \A F \in Range(args.fields) :
      DeclType(header.recs, "INFO", F) \in KnownTypes =>
        /\ InfoDecls(new_header, F) = {}
        /\ Cardinality(FormatDecls(new_header, F)) = 1
        /\ \A d \in FormatDecls(new_header, F) :
             d.type = DeclType(header.recs, "INFO", F)

\* C2: every written record has lost each Integer/Float/String field of the
\* plan that the record read held as an INFO value, and holds the same
\* sequence of values, of the same type, as the FORMAT value of that id.
C2_PresentValueMoved ==
  \A k \in 1..Len(written) : \A F \in Ids :
    (field_types[F] \in Storable /\ input[k].info[F] # Absent) =>
      /\ written[k].info[F] = Absent
      /\ written[k].fmt[F] = input[k].info[F]

\* C3: for every Flag field of the plan, a written record whose record read
\* had the flag set has no INFO value of that id and the FORMAT value [1], an
\* integer sequence of one element; one whose record read had it unset has the
\* FORMAT value [0].
C3_FlagAsInteger ==
  \A k \in 1..Len(written) : \A F \in Ids :
    field_types[F] = "Flag" =>
      IF input[k].info[F] # Absent
      THEN /\ written[k].info[F] = Absent
           /\ written[k].fmt[F] = [t |-> "Integer", v |-> <<1>>]
      ELSE written[k].fmt[F] = [t |-> "Integer", v |-> <<0>>]

\* C4: a written record whose record read lacked an Integer/Float/String field
\* F of the plan has no FORMAT value of F, and its other fields are what the
\* transform without F in the plan makes of the record read.
C4_AbsentLeavesNothing ==
  \A k \in 1..Len(written) : \A F \in Ids :
    (field_types[F] \in Storable /\ input[k].info[F] = Absent) =>
      /\ written[k].fmt[F] = Absent
      /\ LET without == Transform([field_types EXCEPT ![F] = NoType],
                                  args.qual, input[k])
         IN \A G \in Ids \ {F} : /\ written[k].info[G] = without.info[G]
                                 /\ written[k].fmt[G] = without.fmt[G]

\* C5: when the run reports requested ids that are no INFO declaration, it has
\* failed with no record read or written and the message names every
\* requested id that the header does not declare as an INFO field.
C5_AllMissingNamed ==
  (log # << >> /\ Last(log).kind = "missing_info") =>
    /\ pc = "Failed"
    /\ pos = 0
    /\ written = << >>
    /\ \A f \in Range(args.fields) :
         DeclType(header.recs, "INFO", f) = NoType => f \in Range(Last(log).args)

\* A check made before streaming fails on these arguments and this header.
PreCheckFails ==
  \/ Len(args.fields) = 0 /\ ~args.qual
  \/ header.samples # 1
  \/ \E f \in Range(args.fields) : DeclType(header.recs, "INFO", f) = NoType
  \/ \E f \in Range(args.fields) :
       DeclType(header.recs, "INFO", f) \in InfoTypes \ KnownTypes

\* C6: a run whose arguments and header fail a pre-streaming check never
\* streams: it has read and written no record, it is before streaming or in
\* Failed, it can always take its next step until it is in Failed, and Failed
\* is never left.
C6_FailFast ==
  /\ [](PreCheckFails =>
          /\ pos = 0
          /\ written = << >>
          /\ pc \in {"Start", "ValidatingHeader", "BuildingPlan", "Failed"}
          /\ (pc # "Failed" => ENABLED Next))
  /\ [][pc = "Failed" => pc' = "Failed"]_vars

\* A pre-streaming check has failed on a file that holds records.
C6_Witness ==
  /\ PreCheckFails
  /\ pc = "Failed"
  /\ input # << >>
  /\ Last(log).kind \in {"missing_info", "unknown_type"}

PreStreamingKinds == {"no_field", "not_single_sample", "unknown_type", "missing_info"}

\* C7: a run that ends in Done has read only well-formed records, has written
\* one record per record read, the k-th being the transform of the k-th read,
\* and reports their number; a run that fails once streaming has started fails
\* on a malformed record or on a failed extraction, insertion or write.
C7_StreamingOutcome ==
  /\ pc = "Done" =>
       /\ Len(written) = Len(input)
       /\ \A k \in 1..Len(input) :
            /\ input[k].ok
            /\ written[k] = Transform(field_types, args.qual, input[k])
       /\ Last(log) = Msg("finished", <<ToString(Len(input))>>)
  /\ (pc = "Failed" /\ Last(log).kind \notin PreStreamingKinds) =>
       \/ Last(log).kind = "malformed"
       \/ Last(log) \in {Msg("panic", <<c>>) : c \in {"extract", "insert", "write"}}

\* C8: when the run reports a malformed record it has failed, the record is
\* the last one pulled, every record before it and none from it on is
\* written, and the message carries the 1-based position of the record.
C8_MalformedOrdinal ==
  (log # << >> /\ Last(log).kind = "malformed") =>
    /\ pc = "Failed"
    /\ ~input[pos].ok
    /\ Len(written) = pos - 1
    /\ ToString(pos) \in Range(Last(log).args)

\* C9: a run with a non-empty field list on the output of a successful run
\* with the same arguments finds none of its ids declared as an INFO field,
\* keeps stepping until it fails, and fails with the missing-field error and
\* no record read or written.
C9_RerunFails ==
  (run = 2 /\ args.fields # << >>) =>
    /\ \A f \in Range(args.fields) : InfoDecls(header.recs, f) = {}
    /\ \/ pc \in {"Start", "ValidatingHeader", "BuildingPlan"} /\ ENABLED Next
       \/ /\ pc = "Failed"
          /\ pos = 0
          /\ written = << >>
          /\ Len(log) = 1
          /\ log[1].kind = "missing_info"

\* The second run has failed on an output that holds records.
C9_Witness ==
  /\ run = 2
  /\ args.fields # << >>
  /\ pc = "Failed"
  /\ input # << >>

\* Intervals a run may be given besides its own; 10000 is the default.
OtherIntervals == {0, 1, 2, 10000}

\* C10: whatever the library does, the next turn of the streaming loop ends
\* the same way, with the same counter and the same record written, under
\* every other interval as under the interval of the run.
C10_IntervalObservational ==
  (pc = "StreamingRecords" /\ pos < Len(input)) =>
    \A v \in OtherIntervals : \A fault \in Faults :
      LET mine == Turn(args.verbose_report, field_types, args.qual, n_records,
                       input[pos + 1], fault)
          other == Turn(v, field_types, args.qual, n_records, input[pos + 1], fault)
      IN /\ mine.outcome = other.outcome
         /\ mine.n = other.n
         /\ mine.out = other.out

====
